---- MODULE Spec2Model ----
(***************************************************************************)
(* Splitting of disconnected communities (inc/split.hxx): the three        *)
(* OpenMP kernels splitDisconnectedCommunitiesLpaOmpW, ...DfsOmpW and      *)
(* ...BfsOmpW, as state machines over a shared memory (vcom, vaff, vis,    *)
(* cbsy) and the private state of each OpenMP thread.                      *)
(***************************************************************************)
EXTENDS Integers, Sequences, FiniteSets, TLC

\* ------------------------------------------------------------------ bounds
\* x.span(): the size of the vertex-id universe of the graphs explored.
Span == 4
\* The largest number of OpenMP threads explored (omp_get_num_threads()).
MaxT == 2
\* vdom draws its community ids from 0 .. NumDoms-1.
NumDoms == 2
\* The graphs explored have at most this many undirected edges.
MaxEdges == 3
\* At most this many ids of [0, span) are absent from the graph.
MaxAbsent == 1

\* The CHUNK_SIZE template parameter of the label-propagation kernel, here
\* instantiated so that the span covers several chunks of the dynamic schedule.
CHUNK_SIZE == 1

Vertices == 0 .. Span - 1
Threads == 0 .. MaxT - 1

VARIABLES
  algo,       \* which kernel runs: "lpa", "dfs" or "bfs"
  PRUNE,      \* the PRUNE template parameter (label propagation)
  T,          \* omp_get_num_threads()
  present,    \* the ids u with x.hasVertex(u)
  adj,        \* adj[u]: the edge keys of u, in the order forEachEdgeKey visits them
  vdom,       \* community of each vertex (input)
  vcom,       \* subcommunity of each vertex (output)
  vaff,       \* affected flags (label propagation)
  vis,        \* visited flags (traversals)
  cbsy,       \* community busy flags (breadth-first)
  phase,      \* "init" (before the initialization loop), "run", "done"
  next,       \* label propagation: first iteration not yet handed out in this round
  ndel,       \* label propagation: the reduction variable of the round
  w,          \* the private state of each thread
  wrote,      \* history: wrote[v] = the threads that wrote vis[v] or vcom[v] in a traversal
  cap,        \* vcom.size() (and the size of the scratch buffers)
  oob,        \* history: an index at or past cap has been used on vcom
  first       \* history: the vcom an earlier call of the kernel returned, or <<>>

vars == <<algo, PRUNE, T, present, adj, vdom, vcom, vaff, vis, cbsy, phase, next, ndel, w, wrote,
          cap, oob, first>>
input == <<algo, PRUNE, T, present, adj, vdom, cap>>
hist == <<oob, first>>

\* ------------------------------------------------------------ the graph
Min(a, b) == IF a < b THEN a ELSE b

\* The undirected edges a graph over the present set P may have.
Pairs(P) == {e \in SUBSET P : Cardinality(e) = 2}

RECURSIVE SortedSeq(_)
SortedSeq(s) ==
  IF s = {} THEN <<>>
  ELSE LET m == CHOOSE a \in s : \A b \in s : a <= b
       IN <<m>> \o SortedSeq(s \ {m})

\* x.forEachEdgeKey(u, fn): the keys of u's edges, in ascending order.
forEachEdgeKey(E, u) == SortedSeq({v \in Vertices : {u, v} \in E})

hasVertex(u) == u \in present

\* ------------------------------------------------ private state of a thread
Idle == [pc |-> "idle", lp |-> 0, u |-> 0, ue |-> 0, d |-> 0, c |-> 0, i |-> 0, j |-> 0,
         us |-> <<>>, vs |-> <<>>, stk |-> <<>>]

NoFlags == [u \in Vertices |-> FALSE]
NoWrites == [u \in Vertices |-> {}]

\* The state when a kernel is called: any graph, any vdom, any thread count;
\* vcom and the scratch buffers hold what an earlier call left in them (stale
\* labels; every vertex visited, every community busy, no vertex affected).
InitGraph ==
  /\ T \in 1 .. MaxT
  /\ \E P \in SUBSET Vertices :
       /\ Cardinality(Vertices \ P) <= MaxAbsent
       /\ present = P
       /\ \E E \in SUBSET Pairs(P) :
            /\ Cardinality(E) <= MaxEdges
            /\ adj = [u \in Vertices |-> forEachEdgeKey(E, u)]
       /\ vdom \in {f \in [Vertices -> 0 .. NumDoms - 1] : \A a \in Vertices \ P : f[a] = 0}
  /\ vcom \in {[u \in Vertices |-> 0], [u \in Vertices |-> Span - 1]}
  /\ vaff = [u \in Vertices |-> FALSE]
  /\ vis = [u \in Vertices |-> TRUE]
  /\ cbsy = [u \in Vertices |-> TRUE]
  /\ phase = "init"
  /\ next = 0
  /\ ndel = 0
  /\ w = [t \in Threads |-> Idle]
  /\ wrote = NoWrites
  /\ oob = FALSE
  /\ first = <<>>

\* The precondition of the kernels: vcom and the scratch buffers have span entries.
InitInput == cap = Span /\ InitGraph

\* ---------------------------------------------------------------------------
\* splitDisconnectedCommunitiesLpaOmpW
\* ---------------------------------------------------------------------------

\* The iteration after u of the chunk [.., ue) a thread holds, or idle at its end.
LpaAdvance(r) ==
  IF r.u + 1 < r.ue THEN [Idle EXCEPT !.pc = "check", !.u = r.u + 1, !.ue = r.ue]
  ELSE Idle

\* Lines 28-32: the initialization loop (each index is written by one iteration);
\* oob records a store past the end of vcom.
LpaInit ==
  /\ algo = "lpa" /\ phase = "init"
  /\ vcom' = [u \in Vertices |-> u]
  /\ vaff' = IF PRUNE THEN [u \in Vertices |-> TRUE] ELSE vaff
  /\ phase' = "run"
  /\ next' = 0 /\ ndel' = 0
  /\ oob' = (cap < Span)
  /\ UNCHANGED <<input, first, vis, cbsy, w, wrote>>

\* Line 36, schedule(dynamic, CHUNK_SIZE): an idle thread takes the next chunk.
LpaGrab(t) ==
  /\ algo = "lpa" /\ phase = "run" /\ t < T
  /\ w[t].pc = "idle" /\ next < Span
  /\ next' = Min(next + CHUNK_SIZE, Span)
  /\ w' = [w EXCEPT ![t] = [Idle EXCEPT !.pc = "check", !.u = next, !.ue = Min(next + CHUNK_SIZE, Span)]]
  /\ UNCHANGED <<input, hist, vcom, vaff, vis, cbsy, phase, ndel, wrote>>

\* Lines 38-41: skip an absent or unaffected vertex, else read d and c.
LpaCheck(t) ==
  /\ algo = "lpa" /\ phase = "run" /\ t < T
  /\ w[t].pc = "check"
  /\ LET u == w[t].u IN
       IF ~hasVertex(u) \/ (PRUNE /\ ~vaff[u])
       THEN w' = [w EXCEPT ![t] = LpaAdvance(w[t])]
       ELSE w' = [w EXCEPT ![t] = [@ EXCEPT !.pc = "scan", !.d = vdom[u], !.c = vcom[u], !.i = 1]]
  /\ UNCHANGED <<input, hist, vcom, vaff, vis, cbsy, phase, next, ndel, wrote>>

\* Line 44, one edge: c = min(c, vcom[v]) for a neighbour of the same community.
\* (LpaMinM: the larger of the two instead.)
LpaMinM(c, l) == IF c < l THEN l ELSE c
LpaMin(c, l) == Min(c, l)

\* (LpaScanEdgeM: the same step without the test vdom[v]==d.)
LpaScanEdgeM(t) ==
  /\ algo = "lpa" /\ phase = "run" /\ t < T
  /\ w[t].pc = "scan" /\ w[t].i <= Len(adj[w[t].u])
  /\ LET v == adj[w[t].u][w[t].i] IN
       w' = [w EXCEPT ![t] = [@ EXCEPT !.i = @ + 1, !.c = LpaMin(@, vcom[v])]]
  /\ UNCHANGED <<input, hist, vcom, vaff, vis, cbsy, phase, next, ndel, wrote>>

LpaScanEdge(t) ==
  /\ algo = "lpa" /\ phase = "run" /\ t < T
  /\ w[t].pc = "scan" /\ w[t].i <= Len(adj[w[t].u])
  /\ LET v == adj[w[t].u][w[t].i] IN
       w' = [w EXCEPT ![t] = [@ EXCEPT !.i = @ + 1,
                                        !.c = IF vdom[v] = w[t].d THEN LpaMin(@, vcom[v]) ELSE @]]
  /\ UNCHANGED <<input, hist, vcom, vaff, vis, cbsy, phase, next, ndel, wrote>>

\* Lines 46-51: keep the label, or store the smaller one, count it and (PRUNE)
\* clear the vertex's own flag.
LpaUpdate(t) ==
  /\ algo = "lpa" /\ phase = "run" /\ t < T
  /\ w[t].pc = "scan" /\ w[t].i > Len(adj[w[t].u])
  /\ LET u == w[t].u IN
       IF w[t].c = vcom[u]
       THEN /\ w' = [w EXCEPT ![t] = LpaAdvance(w[t])]
            /\ UNCHANGED <<vcom, ndel, vaff, wrote>>
       ELSE /\ vcom' = [vcom EXCEPT ![u] = w[t].c]
            /\ ndel' = ndel + 1
            /\ wrote' = wrote
            /\ IF PRUNE
               THEN /\ vaff' = [vaff EXCEPT ![u] = FALSE]
                    /\ w' = [w EXCEPT ![t] = [@ EXCEPT !.pc = "mark", !.i = 1]]
               ELSE /\ vaff' = vaff
                    /\ w' = [w EXCEPT ![t] = LpaAdvance(w[t])]
  /\ UNCHANGED <<input, hist, vis, cbsy, phase, next>>

\* Line 52, one edge: flag a neighbour of the same community; the iteration
\* ends after the last edge.
LpaMarkEdge(t) ==
  /\ algo = "lpa" /\ phase = "run" /\ t < T
  /\ w[t].pc = "mark" /\ w[t].i <= Len(adj[w[t].u])
  /\ LET v == adj[w[t].u][w[t].i] IN
       vaff' = IF vdom[v] = w[t].d /\ ~vaff[v] THEN [vaff EXCEPT ![v] = TRUE] ELSE vaff
  /\ w' = [w EXCEPT ![t] = IF w[t].i < Len(adj[w[t].u]) THEN [@ EXCEPT !.i = @ + 1]
                           ELSE LpaAdvance(w[t])]
  /\ UNCHANGED <<input, hist, vcom, vis, cbsy, phase, next, ndel, wrote>>

\* Lines 53-54: the barrier that ends the round; break when nothing changed.
\* (LpaRoundEndM: the same step with the test of ndel reversed.)
LpaRoundEndM ==
  /\ algo = "lpa" /\ phase = "run"
  /\ next = Span /\ \A t \in Threads : w[t].pc = "idle"
  /\ IF ndel # 0
     THEN phase' = "done" /\ UNCHANGED <<next, ndel>>
     ELSE phase' = phase /\ next' = 0 /\ ndel' = 0
  /\ UNCHANGED <<input, hist, vcom, vaff, vis, cbsy, w, wrote>>

LpaRoundEnd ==
  /\ algo = "lpa" /\ phase = "run"
  /\ next = Span /\ \A t \in Threads : w[t].pc = "idle"
  /\ IF ndel = 0
     THEN phase' = "done" /\ UNCHANGED <<next, ndel>>
     ELSE phase' = phase /\ next' = 0 /\ ndel' = 0
  /\ UNCHANGED <<input, hist, vcom, vaff, vis, cbsy, w, wrote>>

splitDisconnectedCommunitiesLpaOmpW ==
  \/ LpaInit
  \/ \E t \in Threads : LpaGrab(t)
  \/ \E t \in Threads : LpaCheck(t)
  \/ \E t \in Threads : LpaScanEdge(t)
  \/ \E t \in Threads : LpaUpdate(t)
  \/ \E t \in Threads : LpaMarkEdge(t)
  \/ LpaRoundEnd

InitLpa == algo = "lpa" /\ PRUNE \in BOOLEAN /\ InitInput
SpecLpa == InitLpa /\ [][splitDisconnectedCommunitiesLpaOmpW]_vars

\* ---------------------------------------------------------------------------
\* splitDisconnectedCommunitiesDfsOmpW
\* ---------------------------------------------------------------------------

\* belongsOmp(key, thread, THREADS): the static partition of the communities
\* among the threads, community id modulo the thread count.
belongsOmp(key, thread, THREADS) == key % THREADS = thread

\* Line 85: the lambda ft, should v be visited?
\* (DfsFtM: a filter that accepts every vertex.)
DfsFtM(v, d) == TRUE
DfsFt(v, d) == vdom[v] = d

\* Lines 70-74: the initialization loop; then each thread starts its scan at u = 0.
DfsInit ==
  /\ algo = "dfs" /\ phase = "init"
  /\ vcom' = [u \in Vertices |-> u]
  /\ vis' = NoFlags
  /\ phase' = "run"
  /\ w' = [t \in Threads |-> IF t < T THEN [Idle EXCEPT !.pc = "scan"] ELSE Idle]
  /\ oob' = (cap < Span)
  /\ UNCHANGED <<input, first, vaff, cbsy, next, ndel, wrote>>

\* Lines 80 and 88: the scan of a thread goes on with u + 1, or ends.
DfsNextU(u) ==
  IF u + 1 < Span THEN [Idle EXCEPT !.pc = "scan", !.u = u + 1] ELSE [Idle EXCEPT !.pc = "fin"]

\* Lines 80-87, one iteration of the scan: skip u when it is absent, owned by
\* another thread or visited; else call dfsVisitedForEachU on it, with c = vcom[u].
\* (DfsScanM: the same step without the ownership test.)
DfsScanM(t) ==
  /\ algo = "dfs" /\ phase = "run" /\ t < T
  /\ w[t].pc = "scan"
  /\ LET u == w[t].u IN
       IF ~hasVertex(u) \/ vis[u]
       THEN w' = [w EXCEPT ![t] = DfsNextU(u)]
       ELSE w' = [w EXCEPT ![t] = [@ EXCEPT !.pc = "enter", !.d = vdom[u], !.c = vcom[u], !.j = u]]
  /\ UNCHANGED <<input, hist, vcom, vaff, vis, cbsy, phase, next, ndel, wrote>>

\* (DfsScanC: the same step with the label c read from vdom instead of vcom.)
DfsScanC(t) ==
  /\ algo = "dfs" /\ phase = "run" /\ t < T
  /\ w[t].pc = "scan"
  /\ LET u == w[t].u IN
       IF ~hasVertex(u) \/ ~belongsOmp(vdom[u], t, T) \/ vis[u]
       THEN w' = [w EXCEPT ![t] = DfsNextU(u)]
       ELSE w' = [w EXCEPT ![t] = [@ EXCEPT !.pc = "enter", !.d = vdom[u], !.c = vdom[u], !.j = u]]
  /\ UNCHANGED <<input, hist, vcom, vaff, vis, cbsy, phase, next, ndel, wrote>>

DfsScan(t) ==
  /\ algo = "dfs" /\ phase = "run" /\ t < T
  /\ w[t].pc = "scan"
  /\ LET u == w[t].u IN
       IF ~hasVertex(u) \/ ~belongsOmp(vdom[u], t, T) \/ vis[u]
       THEN w' = [w EXCEPT ![t] = DfsNextU(u)]
       ELSE w' = [w EXCEPT ![t] = [@ EXCEPT !.pc = "enter", !.d = vdom[u], !.c = vcom[u], !.j = u]]
  /\ UNCHANGED <<input, hist, vcom, vaff, vis, cbsy, phase, next, ndel, wrote>>

\* dfsVisitedForEachU, where a thread goes on with call stack r.stk: at the
\* next edge of the innermost call that has one left (calls whose edge loop
\* is over return), or, when the outermost call has returned, at the next u.
RECURSIVE DfsResume(_)
DfsResume(r) ==
  IF r.stk = <<>> THEN DfsNextU(r.u)
  ELSE IF Head(r.stk)[2] <= Len(adj[Head(r.stk)[1]]) THEN [r EXCEPT !.pc = "edges", !.j = 0]
  ELSE DfsResume([r EXCEPT !.stk = Tail(@)])

\* dfsVisitedForEachU(vis, x, v, ft, fp), entry: return when v is visited or ft
\* rejects it; else mark it visited, apply fp (line 86: vcom[v] = c) and loop
\* over its edges.
DfsEnter(t) ==
  /\ algo = "dfs" /\ phase = "run" /\ t < T
  /\ w[t].pc = "enter"
  /\ LET v == w[t].j IN
       IF vis[v] \/ ~DfsFt(v, w[t].d)
       THEN /\ w' = [w EXCEPT ![t] = DfsResume(w[t])]
            /\ UNCHANGED <<vis, vcom, wrote>>
       ELSE /\ vis' = [vis EXCEPT ![v] = TRUE]
            /\ vcom' = [vcom EXCEPT ![v] = w[t].c]
            /\ wrote' = [wrote EXCEPT ![v] = @ \cup {t}]
            /\ w' = [w EXCEPT ![t] = DfsResume([@ EXCEPT !.stk = <<<<v, 1>>>> \o @])]
  /\ UNCHANGED <<input, hist, vaff, cbsy, phase, next, ndel>>

\* dfsVisitedForEachU, one edge of the vertex on top of the call stack: recurse
\* into an unvisited neighbour.
DfsEdge(t) ==
  /\ algo = "dfs" /\ phase = "run" /\ t < T
  /\ w[t].pc = "edges"
  /\ LET v == Head(w[t].stk)[1]
         i == Head(w[t].stk)[2]
         n == adj[v][i]
         stk == <<<<v, i + 1>>>> \o Tail(w[t].stk)
     IN w' = [w EXCEPT ![t] = IF vis[n] THEN DfsResume([@ EXCEPT !.stk = stk])
                              ELSE [@ EXCEPT !.stk = stk, !.pc = "enter", !.j = n]]
  /\ UNCHANGED <<input, hist, vcom, vaff, vis, cbsy, phase, next, ndel, wrote>>

\* Line 89: the end of the parallel region, all threads joined.
DfsJoin ==
  /\ algo = "dfs" /\ phase = "run"
  /\ \A t \in Threads : t < T => w[t].pc = "fin"
  /\ phase' = "done"
  /\ UNCHANGED <<input, hist, vcom, vaff, vis, cbsy, next, ndel, w, wrote>>

splitDisconnectedCommunitiesDfsOmpW ==
  \/ DfsInit
  \/ \E t \in Threads : DfsScan(t)
  \/ \E t \in Threads : DfsEnter(t)
  \/ \E t \in Threads : DfsEdge(t)
  \/ DfsJoin

InitDfs == algo = "dfs" /\ PRUNE = FALSE /\ InitInput
SpecDfs == InitDfs /\ [][splitDisconnectedCommunitiesDfsOmpW]_vars

\* ---------------------------------------------------------------------------
\* splitDisconnectedCommunitiesBfsOmpW
\* ---------------------------------------------------------------------------

\* Line 128: ub = K((double(t)/T) * S), the first vertex of thread t's scan.
StartOf(t) == (t * Span) \div T

\* Line 122: the lambda ft, should v be visited?
\* (BfsFtM: a test that accepts every vertex.)
BfsFtM(v, d) == TRUE
BfsFt(v, d) == vdom[v] = d

\* Lines 107-112: the initialization loop; then (line 129) each thread starts
\* its first loop at u = ub.
BfsInit ==
  /\ algo = "bfs" /\ phase = "init"
  /\ vcom' = [u \in Vertices |-> u]
  /\ cbsy' = NoFlags
  /\ vis' = NoFlags
  /\ phase' = "run"
  /\ w' = [t \in Threads |->
             IF t < T THEN [Idle EXCEPT !.pc = "fl", !.lp = 1, !.u = StartOf(t), !.ue = StartOf(t)]
             ELSE Idle]
  /\ oob' = (cap < Span)
  /\ UNCHANGED <<input, first, vaff, next, ndel, wrote>>

\* Lines 129-130: the state of a thread when fl(u) returns: the next u of the
\* loop for (u=ub; u<S; ++u), then of the loop for (u=0; u<ub; ++u), then the end.
BfsAdvance(r) ==
  LET ub == r.ue IN
  IF r.lp = 1 /\ r.u + 1 < Span THEN [Idle EXCEPT !.pc = "fl", !.lp = 1, !.u = r.u + 1, !.ue = ub]
  ELSE IF r.lp = 1 /\ 0 < ub THEN [Idle EXCEPT !.pc = "fl", !.lp = 2, !.u = 0, !.ue = ub]
  ELSE IF r.lp = 2 /\ r.u + 1 < ub THEN [Idle EXCEPT !.pc = "fl", !.lp = 2, !.u = r.u + 1, !.ue = ub]
  ELSE [Idle EXCEPT !.pc = "fin"]

\* Line 119: return when u is absent or visited.
BfsCheck(t) ==
  /\ algo = "bfs" /\ phase = "run" /\ t < T
  /\ w[t].pc = "fl"
  /\ LET u == w[t].u IN
       IF ~hasVertex(u) \/ vis[u]
       THEN w' = [w EXCEPT ![t] = BfsAdvance(w[t])]
       ELSE w' = [w EXCEPT ![t] = [@ EXCEPT !.pc = "read"]]
  /\ UNCHANGED <<input, hist, vcom, vaff, vis, cbsy, phase, next, ndel, wrote>>

\* Line 120: K d = vdom[u], c = vcom[u].
BfsRead(t) ==
  /\ algo = "bfs" /\ phase = "run" /\ t < T
  /\ w[t].pc = "read"
  /\ w' = [w EXCEPT ![t] = [@ EXCEPT !.pc = "claim", !.d = vdom[w[t].u], !.c = vcom[w[t].u]]]
  /\ UNCHANGED <<input, hist, vcom, vaff, vis, cbsy, phase, next, ndel, wrote>>

\* Lines 121 and 124: return when cbsy[d] is set, else set it (the atomic
\* exchange returned B()), and make u the only start vertex of the traversal.
\* (BfsClaimM: the same step with a plain store in place of the exchange.)
BfsClaimM(t) ==
  /\ algo = "bfs" /\ phase = "run" /\ t < T
  /\ w[t].pc = "claim"
  /\ cbsy' = [cbsy EXCEPT ![w[t].d] = TRUE]
  /\ w' = [w EXCEPT ![t] = [@ EXCEPT !.pc = "start", !.us = <<w[t].u>>, !.vs = <<>>]]
  /\ UNCHANGED <<input, hist, vcom, vaff, vis, phase, next, ndel, wrote>>

BfsClaim(t) ==
  /\ algo = "bfs" /\ phase = "run" /\ t < T
  /\ w[t].pc = "claim"
  /\ IF cbsy[w[t].d]
     THEN /\ w' = [w EXCEPT ![t] = BfsAdvance(w[t])]
          /\ cbsy' = cbsy
     ELSE /\ cbsy' = [cbsy EXCEPT ![w[t].d] = TRUE]
          /\ w' = [w EXCEPT ![t] = [@ EXCEPT !.pc = "start", !.us = <<w[t].u>>, !.vs = <<>>]]
  /\ UNCHANGED <<input, hist, vcom, vaff, vis, phase, next, ndel, wrote>>

\* bfsVisitedForEachU, where a thread goes on: at the next edge of the first
\* frontier vertex us[j] that has one left; at the end of the frontier us the
\* frontiers are swapped, and the traversal returns when the new one is empty.
RECURSIVE BfsResume(_)
BfsResume(r) ==
  IF r.j <= Len(r.us)
  THEN IF r.i <= Len(adj[r.us[r.j]]) THEN [r EXCEPT !.pc = "level"]
       ELSE BfsResume([r EXCEPT !.j = @ + 1, !.i = 1])
  ELSE IF r.vs = <<>> THEN [r EXCEPT !.pc = "release", !.us = <<>>, !.j = 0, !.i = 0]
  ELSE BfsResume([r EXCEPT !.us = r.vs, !.vs = <<>>, !.j = 1, !.i = 1])

\* bfsVisitedForEachU(vis, us, vs, x, ft, fp), the start vertex: the traversal
\* is restricted to unvisited vertices that ft accepts; it marks the start
\* vertex visited and applies fp (line 123: vcom[v] = c) to it.
BfsStart(t) ==
  /\ algo = "bfs" /\ phase = "run" /\ t < T
  /\ w[t].pc = "start"
  /\ LET u == w[t].us[1] IN
       IF vis[u] \/ ~BfsFt(u, w[t].d)
       THEN /\ w' = [w EXCEPT ![t] = BfsResume([@ EXCEPT !.us = <<>>, !.j = 1, !.i = 1])]
            /\ UNCHANGED <<vis, vcom, wrote>>
       ELSE /\ vis' = [vis EXCEPT ![u] = TRUE]
            /\ vcom' = [vcom EXCEPT ![u] = w[t].c]
            /\ wrote' = [wrote EXCEPT ![u] = @ \cup {t}]
            /\ w' = [w EXCEPT ![t] = BfsResume([@ EXCEPT !.j = 1, !.i = 1])]
  /\ UNCHANGED <<input, hist, vaff, cbsy, phase, next, ndel>>

\* bfsVisitedForEachU, one edge of the frontier vertex us[j]: an unvisited
\* neighbour v that ft accepts is marked visited, given the label c and put on
\* the next frontier vs.
BfsEdge(t) ==
  /\ algo = "bfs" /\ phase = "run" /\ t < T
  /\ w[t].pc = "level"
  /\ LET v == adj[w[t].us[w[t].j]][w[t].i] IN
       IF vis[v] \/ ~BfsFt(v, w[t].d)
       THEN /\ w' = [w EXCEPT ![t] = BfsResume([@ EXCEPT !.i = @ + 1])]
            /\ UNCHANGED <<vis, vcom, wrote>>
       ELSE /\ vis' = [vis EXCEPT ![v] = TRUE]
            /\ vcom' = [vcom EXCEPT ![v] = w[t].c]
            /\ wrote' = [wrote EXCEPT ![v] = @ \cup {t}]
            /\ w' = [w EXCEPT ![t] = BfsResume([@ EXCEPT !.i = @ + 1, !.vs = Append(@, v)])]
  /\ UNCHANGED <<input, hist, vaff, cbsy, phase, next, ndel>>

\* Line 126: cbsy[d] = B(), and fl(u) returns.
BfsRelease(t) ==
  /\ algo = "bfs" /\ phase = "run" /\ t < T
  /\ w[t].pc = "release"
  /\ cbsy' = [cbsy EXCEPT ![w[t].d] = FALSE]
  /\ w' = [w EXCEPT ![t] = BfsAdvance(w[t])]
  /\ UNCHANGED <<input, hist, vcom, vaff, vis, phase, next, ndel, wrote>>

\* Line 131: the end of the parallel region, all threads joined.
BfsJoin ==
  /\ algo = "bfs" /\ phase = "run"
  /\ \A t \in Threads : t < T => w[t].pc = "fin"
  /\ phase' = "done"
  /\ UNCHANGED <<input, hist, vcom, vaff, vis, cbsy, next, ndel, w, wrote>>

splitDisconnectedCommunitiesBfsOmpW ==
  \/ BfsInit
  \/ \E t \in Threads : BfsCheck(t)
  \/ \E t \in Threads : BfsRead(t)
  \/ \E t \in Threads : BfsClaim(t)
  \/ \E t \in Threads : BfsStart(t)
  \/ \E t \in Threads : BfsEdge(t)
  \/ \E t \in Threads : BfsRelease(t)
  \/ BfsJoin

InitBfs == algo = "bfs" /\ PRUNE = FALSE /\ InitInput
SpecBfs == InitBfs /\ [][splitDisconnectedCommunitiesBfsOmpW]_vars

\* ---------------------------------------------------------------------------
\* The three kernels together
\* ---------------------------------------------------------------------------
Init == InitLpa \/ InitDfs \/ InitBfs

Next ==
  \/ splitDisconnectedCommunitiesLpaOmpW
  \/ splitDisconnectedCommunitiesDfsOmpW
  \/ splitDisconnectedCommunitiesBfsOmpW

Spec == Init /\ [][Next]_vars

\* The two traversal kernels.
SpecTraversal ==
  (InitDfs \/ InitBfs) /\
  [][splitDisconnectedCommunitiesDfsOmpW \/ splitDisconnectedCommunitiesBfsOmpW]_vars

\* The OpenMP runtime keeps running a thread that has work to do: a kernel
\* does not stop while one of its steps is enabled.
FairSpec == Spec /\ WF_vars(Next)

\* ---------------------------------------------------------------------------
\* A second call on the output of the first, and a call with short buffers
\* ---------------------------------------------------------------------------

\* The kernel that has returned is called again on the same graph with its
\* own output as vdom; vcom and the scratch buffers are as the first call
\* left them.
Rerun ==
  /\ phase = "done" /\ first = <<>>
  /\ first' = vcom
  /\ vdom' = vcom
  /\ phase' = "init"
  /\ next' = 0 /\ ndel' = 0
  /\ w' = [t \in Threads |-> Idle]
  /\ wrote' = NoWrites
  /\ UNCHANGED <<algo, PRUNE, T, present, adj, cap, vcom, vaff, vis, cbsy, oob>>

SpecRerun == Init /\ [][Next \/ Rerun]_vars

\* A call whose vcom has fewer entries than the graph's span.
InitShort ==
  /\ algo \in {"lpa", "dfs", "bfs"}
  /\ PRUNE \in (IF algo = "lpa" THEN BOOLEAN ELSE {FALSE})
  /\ cap = Span - 1
  /\ InitGraph

\* Lines 29-30, 71-72, 108-109 with u >= vcom.size(): the store vcom[u] = u is
\* undefined behaviour. Either it lands in the memory after the buffer and the
\* kernel runs on (LpaInit, DfsInit, BfsInit), or the process faults there,
\* with the entries below cap written or not yet written.
InitFault ==
  /\ phase = "init" /\ cap < Span
  /\ phase' = "fault"
  /\ oob' = TRUE
  /\ vcom' \in {vcom, [u \in Vertices |-> IF u < cap THEN u ELSE vcom[u]]}
  /\ UNCHANGED <<input, first, vaff, vis, cbsy, next, ndel, w, wrote>>

SpecShort == InitShort /\ [][Next \/ InitFault]_vars

\* ---------------------------------------------------------------------------
\* What the kernels are to compute
\* ---------------------------------------------------------------------------

\* The vertices joined to those of R by paths that use only edges whose two
\* endpoints are in community d.
RECURSIVE Grow(_, _)
Grow(R, d) ==
  LET N == R \cup {v \in Vertices : vdom[v] = d /\ \E r \in R : \E k \in 1 .. Len(adj[r]) : adj[r][k] = v}
  IN IF N = R THEN R ELSE Grow(N, d)

\* The connected piece of u's community that u lies in.
Piece(u) == Grow({u}, vdom[u])

SetMin(s) == CHOOSE a \in s : \A b \in s : a <= b

\* The refinement invariant of the output.
Refined ==
  \A u \in present : \A v \in present :
    vdom[u] = vdom[v] => ((vcom[u] = vcom[v]) <=> (v \in Piece(u)))

\* The labels a single thread produces: it scans the ids in ascending order
\* and gives the whole piece of each unvisited present vertex u the label u.
RECURSIVE SeqScan(_, _, _)
SeqScan(u, seen, lab) ==
  IF u = Span THEN lab
  ELSE IF u \notin present \/ u \in seen THEN SeqScan(u + 1, seen, lab)
  ELSE SeqScan(u + 1, seen \cup Piece(u), [v \in Vertices |-> IF v \in Piece(u) THEN u ELSE lab[v]])

SingleThread == SeqScan(0, {}, [v \in Vertices |-> v])

\* With one thread the traversal kernels produce exactly these labels.
OneThreadResult ==
  (algo \in {"dfs", "bfs"} /\ T = 1 /\ phase = "done") => \A u \in present : vcom[u] = SingleThread[u]

\* The threads that run the parallel region.
Workers == {t \in Threads : t < T}

\* ---------------------------------------------------------------------------
\* Properties
\* ---------------------------------------------------------------------------

\* C1: breadth-first splitter: when all threads have finished their scan, two
\* present vertices of the same community have the same vcom iff they are
\* joined by a path of same-community edges.
BfsRefined == (algo = "bfs" /\ phase = "done") => Refined

\* C2: label propagation with pruning: when the loop exits, two present
\* vertices of the same community have the same vcom iff they are joined by a
\* path of same-community edges.
LpaPruneRefined == (algo = "lpa" /\ PRUNE /\ phase = "done") => Refined

\* C3: label propagation without pruning: when the loop exits, two present
\* vertices of the same community have the same vcom iff they are joined by a
\* path of same-community edges.
LpaPlainRefined == (algo = "lpa" /\ ~PRUNE /\ phase = "done") => Refined

\* A finished unpruned run of two threads on a graph with a piece of three
\* vertices and a vertex of the same community outside it.
LpaPlainRefinedWitness ==
  /\ algo = "lpa" /\ ~PRUNE /\ phase = "done" /\ T = 2
  /\ \E u \in present : \E v \in present :
       /\ Cardinality(Piece(u)) >= 3
       /\ vdom[v] = vdom[u] /\ v \notin Piece(u)
       /\ vcom[v] # vcom[u]
       /\ \A x \in Piece(u) : vcom[x] = vcom[u]

\* C4: depth-first splitter: when all threads have finished their scan, two
\* present vertices of the same community have the same vcom iff they are
\* joined by a path of same-community edges.
DfsRefined == (algo = "dfs" /\ phase = "done") => Refined

\* A finished run of two threads, each of which labelled a piece of its own,
\* one of them a piece of two or more vertices beside another piece of the
\* same community.
DfsRefinedWitness ==
  /\ algo = "dfs" /\ phase = "done" /\ T = 2
  /\ \E u \in present : \E v \in present : \E x \in present :
       /\ vdom[u] = vdom[v] /\ v \notin Piece(u) /\ Cardinality(Piece(u)) >= 2
       /\ vdom[x] # vdom[u]
       /\ wrote[u] # {} /\ wrote[x] # {} /\ wrote[u] # wrote[x]

\* C5: label propagation, either pruning setting: at termination vcom[u] is
\* the smallest vertex id of the connected piece of u's community u lies in.
LpaMinimalLabels ==
  (algo = "lpa" /\ phase = "done") => \A u \in present : vcom[u] = SetMin(Piece(u))

\* Without pruning the labels at termination are the smallest ids of the pieces.
LpaPlainMinimalLabels ==
  (algo = "lpa" /\ ~PRUNE /\ phase = "done") => \A u \in present : vcom[u] = SetMin(Piece(u))

\* C6: breadth-first splitter: for every community d, at most one thread is
\* between a successful claim of cbsy[d] and its release.
Holding(t, d) == w[t].pc \in {"start", "level", "release"} /\ w[t].d = d
BfsMutualExclusion ==
  algo = "bfs" =>
    \A d \in Vertices : \A s \in Workers : \A t \in Workers :
      (Holding(s, d) /\ Holding(t, d)) => s = t

\* A thread is in a traversal of community d while another one is about to
\* try to claim the same community.
BfsMutualExclusionWitness ==
  /\ algo = "bfs" /\ phase = "run"
  /\ \E s \in Workers : \E t \in Workers :
       /\ s # t /\ w[s].pc = "level" /\ w[t].pc = "claim" /\ w[t].d = w[s].d
       /\ cbsy[w[s].d]

\* C7: depth-first splitter: vis[v] and vcom[v] are written, after the
\* initialization, only by the thread that owns v's community, so never by two
\* distinct threads.
DfsOwnerWrites ==
  algo = "dfs" =>
    \A v \in Vertices :
      /\ \A t \in wrote[v] : belongsOmp(vdom[v], t, T)
      /\ Cardinality(wrote[v]) <= 1

\* Two threads have each written the entries of a vertex of their own while
\* the other one was still scanning.
DfsOwnerWritesWitness ==
  /\ algo = "dfs" /\ phase = "run" /\ T = 2
  /\ \E u \in present : \E v \in present : wrote[u] = {0} /\ wrote[v] = {1}
  /\ \A t \in Workers : w[t].pc # "fin"

\* C8: label propagation: after the initialization no step increases a
\* vcom[u], and every step that stores a label (and counts it in ndel) stores
\* a strictly smaller one.
LpaMonotone ==
  [][(algo = "lpa" /\ phase = "run") =>
        /\ \A u \in Vertices : vcom'[u] <= vcom[u]
        /\ (ndel' = ndel + 1) => \E u \in Vertices : vcom'[u] < vcom[u]
        /\ (vcom' # vcom) => (ndel' = ndel + 1)]_vars

\* A label was lowered twice: below its vertex's id, and then again.
LpaMonotoneWitness ==
  /\ algo = "lpa" /\ phase = "run"
  /\ \E u \in present : \E t \in Workers :
       /\ w[t].pc = "scan" /\ w[t].u = u /\ w[t].i > Len(adj[u])
       /\ vcom[u] < u /\ w[t].c < vcom[u]

\* C9: under fair scheduling each kernel finishes: the label-propagation loop
\* reaches a round with ndel = 0 and exits, and every thread of the traversal
\* kernels completes its scan.
Termination == <>(phase = "done")

\* A kernel has finished after its threads worked concurrently: label
\* propagation after a round with changes, a traversal with both threads writing.
TerminationWitness ==
  /\ phase = "done" /\ T = 2
  /\ \/ algo = "lpa" /\ \E u \in present : vcom[u] < u
     \/ algo # "lpa" /\ \E u \in present : \E v \in present : wrote[u] = {0} /\ wrote[v] = {1}

\* C10: the classes of equal vcom the depth-first and the breadth-first
\* splitter produce are, for every thread count and interleaving, those
\* produced with one thread.
ThreadCountInvariance ==
  (algo \in {"dfs", "bfs"} /\ phase = "done") =>
    \A u \in present : \A v \in present :
      (vcom[u] = vcom[v]) <=> (SingleThread[u] = SingleThread[v])

\* C11: when a kernel has finished, whichever of the three it is, two present
\* vertices carry the same label exactly when they carry the same label in the
\* one-thread scan of the same graph and vdom: every kernel yields the one
\* partition, so any two kernels yield the same partition.
CrossStrategyEquivalence ==
  phase = "done" =>
    \A u, v \in present : (vcom[u] = vcom[v]) <=> (SingleThread[u] = SingleThread[v])

\* C15: when the breadth-first kernel has finished, every present vertex has
\* its visited flag set.
BfsCoverage ==
  (algo = "bfs" /\ phase = "done") => \A u \in present : vis[u]

\* C16: a thread of the breadth-first kernel that has claimed the community of
\* u (line 121 succeeded) and is about to traverse from u holds an unvisited
\* root and the label c = u.
BfsRootFresh ==
  algo = "bfs" =>
    \A t \in Workers : w[t].pc = "start" => (~vis[w[t].u] /\ w[t].c = w[t].u)

\* The barrier that ends a round of label propagation, and the state after
\* the last round.
RoundBoundary ==
  /\ algo = "lpa"
  /\ \/ phase = "done"
     \/ phase = "run" /\ next = Span /\ \A t \in Threads : w[t].pc = "idle"

\* C17: with PRUNE, at every round boundary a present vertex that has a
\* neighbour of its community with a smaller label is flagged affected.
LpaFrontier ==
  (PRUNE /\ RoundBoundary) =>
    \A u \in present :
      (\E i \in 1 .. Len(adj[u]) :
         vdom[adj[u][i]] = vdom[u] /\ vcom[adj[u][i]] < vcom[u]) => vaff[u]

\* C18: with PRUNE, the step that ends the scan of an affected vertex u (all
\* its edges read, lines 46-51) leaves vaff[u] cleared, whether the label of u
\* changed or not.
LpaFlagCleared ==
  [][\A t \in Workers :
       (algo = "lpa" /\ PRUNE /\ w[t].pc = "scan" /\ w[t].i > Len(adj[w[t].u])
          /\ w'[t] # w[t])
       => ~vaff'[w[t].u]]_vars

\* C19: when the depth-first kernel has finished, the label of every present
\* vertex is the smallest id of its piece; label propagation without pruning
\* ends with the same labels, so the two outputs agree entry by entry.
DfsMinimalLabels ==
  (phase = "done" /\ (algo = "dfs" \/ (algo = "lpa" /\ ~PRUNE))) =>
    \A u \in present : vcom[u] = SetMin(Piece(u))

\* Reached: two threads of the depth-first kernel have finished a graph in
\* which some vertex took the label of a smaller vertex of its piece and both
\* threads labelled vertices.
DfsMinimalLabelsWitness ==
  /\ algo = "dfs" /\ phase = "done" /\ T = 2
  /\ \E u \in present : vcom[u] < u /\ Cardinality(Piece(u)) >= 3
  /\ \E u, v \in present : wrote[u] = {0} /\ wrote[v] = {1}

\* C20: when the breadth-first kernel has finished, the label of every present
\* vertex u is the id of a present vertex r of u's community that is joined
\* to u by edges inside the community and that carries its own id as label.
BfsValidRepresentative ==
  (algo = "bfs" /\ phase = "done") =>
    \A u \in present :
      LET r == vcom[u] IN
        /\ r \in present
        /\ vdom[r] = vdom[u]
        /\ r \in Piece(u)
        /\ vcom[r] = r

\* Reached: two threads of the breadth-first kernel have finished, both
\* labelled vertices, and some vertex carries the id of another vertex.
BfsValidRepresentativeWitness ==
  /\ algo = "bfs" /\ phase = "done" /\ T = 2
  /\ \E u \in present : vcom[u] # u
  /\ \E u, v \in present : wrote[u] = {0} /\ wrote[v] = {1}

\* C14: no step of a kernel changes the vcom entry of an absent id: vcom[a]
\* keeps the value it held when the kernel was called.
AbsentUntouched ==
  [][\A a \in Vertices \ present : vcom'[a] = vcom[a]]_vars

SizeMismatchError ==
  (cap < Span /\ phase # "init") => (phase = "error" /\ ~oob)

====
